---- MODULE Spec2Model ----
(***************************************************************************)
(* TraceCam: the capture-and-record pipeline of the browser application.   *)
(* The model follows the latest variant of the module (src/unnamed/        *)
(* part_001).  One action is one event-loop turn of the browser: a         *)
(* handler runs to completion or to its first await.                       *)
(*                                                                         *)
(* Coordinates are integers in micro-degrees (latitude * 10^6), time is in *)
(* milliseconds.  JavaScript values that can be null / undefined / NaN are *)
(* records with a tag field t.                                             *)
(***************************************************************************)
EXTENDS Integers, Sequences, FiniteSets, TLC

VARIABLES
    stream,          \* state.stream: "null" | "live" | "stopped" (tracks stopped)
    facingMode,      \* state.facingMode
    camPending,      \* getUserMedia promises not yet settled
    position,        \* state.position
    locationInfo,    \* state.locationInfo
    address,         \* textContent of the #address element
    geocodeTimeout,  \* the debounce timer armed by reverseGeocode
    fetches,         \* reverse-geocode requests in flight
    now,             \* Date.now(), in ms
    settings,        \* state.settings
    photos,          \* state.photos
    logs,            \* state.logs
    nonArray,        \* state.photos / state.logs holds a value that is not an array
    sessionId,       \* state.sessionId
    storedPhotos,    \* localStorage[PHOTOS_KEY]
    storedLogs,      \* localStorage[LOGS_KEY]
    storedSettings,  \* localStorage[SETTINGS_KEY]
    platform,        \* which device-save surface the browser offers
    saveAll,         \* the loop of saveAllPhotos: where it waits, what it has downloaded
    devSaves,        \* saveToDevice calls suspended at an await
    handed,          \* history: photos handed to a device-save channel
    toasts,          \* showToast calls of the last handler run
    nCaptured,       \* history: photo records created so far, all sessions
    fixLog,          \* history: arrival times of the position fixes
    requests,        \* history: reverse-geocode requests issued
    created,         \* history: the photo objects capturePhoto has built, all sessions
    budget,          \* events of each bounded kind the environment may still raise
    lastOp           \* history: what the last handler run did

camVars   == <<stream, facingMode, camPending>>
geoVars   == <<position, locationInfo, address, geocodeTimeout, fetches>>
memVars   == <<photos, logs, nonArray>>
diskVars  == <<storedPhotos, storedLogs, storedSettings>>
histVars  == <<nCaptured, fixLog, requests, created>>
vars == <<stream, facingMode, camPending, position, locationInfo, address,
          geocodeTimeout, fetches, now, settings, photos, logs, nonArray,
          sessionId, storedPhotos, storedLogs, storedSettings, platform, saveAll,
          devSaves, handed, toasts, nCaptured, fixLog, requests, created, budget, lastOp>>

----------------------------------------------------------------------------
(* Bounds of the model *)

MaxCaptures == 2
MaxWriteFailures == 1
MaxCamCalls == 1
MaxReloads == 1
MaxRand == 1
MaxStoreCaptures == 52
MaxStoreFailures == 1
MaxFixes == 3
MaxTime == 2400
TickMs == 200
MaxSnapCaptures == 2
MaxSnapEvents == 2
MaxLifeCaptures == 2
MaxLifeEvents == 1
MaxFrameCaptures == 2
MaxFrameEvents == 1
MaxSaveCaptures == 2
MaxSaveEvents == 1
MaxLocCaptures == 2
MaxLocFixes == 2
MaxCsvCaptures == 2
MaxCsvEvents == 1
MaxPlaceFixes == 1
MaxEarlierPhotos == 49
MaxAddrCaptures == 1
MaxAddrFixes == 2
MaxBatchCaptures == 3
MaxBatches == 1
MaxBatchFailures == 1
MaxSessionCaptures == 2
MaxSessionEvents == 1

(* Program constants *)

PersistCap == 50
QuotaCap == 20
GeocodeDelay == 1000
SaveAllDelay == 400
Micro == 1000000

----------------------------------------------------------------------------
(* JavaScript values *)

JNull == [t |-> "null"]
JUndef == [t |-> "undefined"]
JNaN == [t |-> "NaN"]
JNum(n) == [t |-> "number", v |-> n]

Min(a, b) == IF a <= b THEN a ELSE b
Abs(a) == IF a < 0 THEN -a ELSE a

\* Array.prototype.slice(0, n)
Slice(s, n) == SubSeq(s, 1, Min(n, Len(s)))
\* Array.prototype.unshift(x), and the variant that pushes at the end
UnshiftAtEnd(s, x) == s \o <<x>>
Unshift(s, x) == <<x>> \o s

RandSet == 0..MaxRand

----------------------------------------------------------------------------
(* Inputs the environment supplies *)

\* GeolocationPosition.coords of two fixes: 12.345678 N 98.765432 E, and a
\* fix on the equator in the western hemisphere (0, -122.4194).
FixA == [t |-> "object", latitude |-> 12345678, longitude |-> 98765432,
         accuracy |-> JNum(5), altitude |-> JNull, heading |-> JNaN,
         speed |-> JNum(0)]
FixB == [t |-> "object", latitude |-> 0, longitude |-> -122419400,
         accuracy |-> JNum(12), altitude |-> JNum(30), heading |-> JNull,
         speed |-> JNull]
FixSet == {FixA, FixB}

\* Fixes over the whole range of coordinates, in micro-degrees: the poles,
\* the polar circles and the tropics, the equator and the antimeridian,
\* their neighbours, and values whose seconds print as 60.00.
SurveyLatitudes ==
    {-90000000, -66500000, -45999999, -23500001, -23500000, -1, 0, 1,
     10100000, 23500000, 45999999, 66499999, 66500000, 90000000}
SurveyLongitudes ==
    {-180000000, -179999999, -122419400, -1, 0, 98765432, 120999999, 180000000}
SurveyFixes ==
    {[FixA EXCEPT !.latitude = la, !.longitude = lo] :
        la \in SurveyLatitudes, lo \in SurveyLongitudes}

\* The text the page's markup puts in #address before any lookup completes.
InitialAddressText == [kind |-> "markup"]
\* display_name the geocoding service returns for a coordinate pair.
DisplayName(lat, lng) == [kind |-> "display_name", lat |-> lat, lng |-> lng]
AddressUnavailable == [kind |-> "Address unavailable"]

\* new Date().getMonth(): the run straddles the end of March.
MonthOf(ms) == IF 2 * ms < MaxTime THEN 2 ELSE 3

DefaultSettings ==
    [watermarkEnabled |-> FALSE, coordsOnImage |-> TRUE,
     timestampOnImage |-> TRUE, autoSave |-> TRUE, fullResolution |-> TRUE,
     showLocationDecipher |-> TRUE, projectName |-> "", operatorName |-> ""]

\* What the settings form can hold when Save is pressed.
SettingsForms ==
    { [DefaultSettings EXCEPT !.coordsOnImage = FALSE, !.timestampOnImage = FALSE,
                              !.watermarkEnabled = TRUE, !.autoSave = FALSE,
                              !.projectName = "Site 7"],
      [DefaultSettings EXCEPT !.timestampOnImage = FALSE, !.fullResolution = FALSE,
                              !.operatorName = "Ana, \"QA\""],
      DefaultSettings }

\* Forms that differ in the names typed: a name with a comma, a name that
\* opens with a double quote, a plain name.
NamedForms ==
    { [DefaultSettings EXCEPT !.projectName = "Site 7, North", !.operatorName = "Ana"],
      [DefaultSettings EXCEPT !.projectName = "\"Gate 3", !.operatorName = "Ana"],
      [DefaultSettings EXCEPT !.projectName = "Site 7", !.operatorName = "Ana"] }

\* showSaveFilePicker present | navigator.share that can share files |
\* navigator.share that cannot share the file | neither.
Platforms == {"picker", "share", "shareNoFiles", "download"}

----------------------------------------------------------------------------
(* Geodetic Deriver *)

\* A variant of toDMS that prints whole seconds.
toDMSWholeSeconds(decimal, isLat) ==
    LET absolute == Abs(decimal)
        degrees == absolute \div Micro
        minutesMicro == (absolute - degrees * Micro) * 60
        minutes == minutesMicro \div Micro
        secondsMicro == (minutesMicro - minutes * Micro) * 60
    IN  [degrees |-> degrees, minutes |-> minutes,
         seconds |-> 100 * ((secondsMicro + 500000) \div Micro),
         direction |-> IF isLat THEN (IF decimal >= 0 THEN "N" ELSE "S")
                                ELSE (IF decimal >= 0 THEN "E" ELSE "W")]

\* toDMS of decimalToDMS on a value in micro-degrees; seconds are kept as
\* hundredths of an arcsecond, which is what toFixed(2) prints.
toDMS(decimal, isLat) ==
    LET absolute == Abs(decimal)
        degrees == absolute \div Micro
        minutesMicro == (absolute - degrees * Micro) * 60
        minutes == minutesMicro \div Micro
        secondsMicro == (minutesMicro - minutes * Micro) * 60
        seconds == (secondsMicro + 5000) \div 10000
        direction == IF isLat THEN (IF decimal >= 0 THEN "N" ELSE "S")
                              ELSE (IF decimal >= 0 THEN "E" ELSE "W")
    IN  [degrees |-> degrees, minutes |-> minutes, seconds |-> seconds,
         direction |-> direction]

decimalToDMS(lat, lng) ==
    [latitude |-> toDMS(lat, TRUE), longitude |-> toDMS(lng, FALSE)]

locationType(lat) ==
    IF 10 * lat >= 665 * Micro THEN "Arctic region"
    ELSE IF 10 * lat <= -665 * Micro THEN "Antarctic region"
    ELSE IF 10 * lat >= 235 * Micro /\ 10 * lat <= 665 * Micro
         THEN "Northern temperate zone"
    ELSE IF 10 * lat >= -235 * Micro /\ 10 * lat <= 235 * Micro
         THEN "Tropical zone"
    ELSE IF 10 * lat >= -665 * Micro /\ 10 * lat <= -235 * Micro
         THEN "Southern temperate zone"
    ELSE "Unknown area"

seasonHint(lat, month) ==
    LET isNorthernSummer == month >= 3 /\ month <= 8
    IN  IF lat >= 0
        THEN (IF isNorthernSummer THEN "Northern hemisphere (summer)"
                                  ELSE "Northern hemisphere (winter)")
        ELSE (IF isNorthernSummer THEN "Southern hemisphere (winter)"
                                  ELSE "Southern hemisphere (summer)")

\* The value decipherLocation stores in state.locationInfo.
decipherLocation(lat, lng, month) ==
    [t |-> "object",
     decimal |-> [lat |-> lat, lng |-> lng],
     dms |-> decimalToDMS(lat, lng),
     hemisphere |-> [lat |-> IF lat >= 0 THEN "North" ELSE "South",
                     lng |-> IF lng >= 0 THEN "East" ELSE "West"],
     locationType |-> locationType(lat),
     seasonHint |-> seasonHint(lat, month),
     mapUrl |-> <<"maps", lat, lng>>]

----------------------------------------------------------------------------
(* Frame Compositor *)

\* What addMetadataOverlay draws on the canvas: the backing band, the two
\* timestamp lines, the coordinate line, the watermark banner.
NoOverlay == [band |-> FALSE, lines |-> <<>>, watermark |-> FALSE]

\* Number.prototype.toFixed(6) of a coordinate held in micro-degrees: the
\* sign, the whole degrees and the six decimals printed.
toFixed6(m) ==
    [negative |-> m < 0, whole |-> Abs(m) \div Micro, decimals |-> Abs(m) % Micro]

timestampLinesAlways(s) == <<[t |-> "local"], [t |-> "utc"]>>

\* The fillText calls of addMetadataOverlay, in the order made: the local
\* and the UTC timestamp lines, then the coordinates line.
timestampLines(s) ==
    IF s.timestampOnImage THEN <<[t |-> "local"], [t |-> "utc"]>> ELSE <<>>

coordinatesLines(s, pos) ==
    IF s.coordsOnImage /\ pos.t # "null"
    THEN <<[t |-> "coords", latitude |-> toFixed6(pos.latitude),
            longitude |-> toFixed6(pos.longitude), accuracy |-> pos.accuracy]>>
    ELSE <<>>

addMetadataOverlay(s, pos) ==
    [band |-> TRUE,
     lines |-> timestampLines(s) \o coordinatesLines(s, pos),
     watermark |-> s.watermarkEnabled]

composeImageAlwaysOverlay(s, pos, str) ==
    [frame |-> str,
     overlay |-> addMetadataOverlay(s, pos),
     quality |-> IF s.fullResolution THEN 100 ELSE 85]

\* The canvas after capturePhoto has drawn the frame and the overlay, and
\* the quality toDataURL encodes it with.
composeImage(s, pos, str) ==
    [frame |-> str,
     overlay |-> IF s.timestampOnImage \/ s.coordsOnImage
                 THEN addMetadataOverlay(s, pos) ELSE NoOverlay,
     quality |-> IF s.fullResolution THEN 100 ELSE 85]

----------------------------------------------------------------------------
(* Records *)

generatePhotoId(ms, rnd) == [prefix |-> "IMG", timestamp |-> ms, random |-> rnd]
generateSessionId(ms, rnd) == [prefix |-> "TC", timestamp |-> ms, random |-> rnd]

\* The photo object capturePhoto assembles.  seq is history: the ordinal of
\* the capture, which the program does not store.
photoRecord(id, sid, image, s, pos, info, addr, ms, n) ==
    [id |-> id,
     sessionId |-> sid,
     imageData |-> image,
     quality |-> IF s.fullResolution THEN "Full" ELSE "High",
     timestamp |-> ms,
     location |-> IF pos.t # "null"
                  THEN [t |-> "object", latitude |-> pos.latitude,
                        longitude |-> pos.longitude, accuracy |-> pos.accuracy,
                        altitude |-> pos.altitude, heading |-> pos.heading,
                        speed |-> pos.speed,
                        dms |-> IF info.t # "null" THEN info.dms ELSE JNull]
                  ELSE JNull,
     address |-> addr,
     locationDecipher |-> IF info.t # "null"
                          THEN [t |-> "object", hemisphere |-> info.hemisphere,
                                locationType |-> info.locationType,
                                seasonHint |-> info.seasonHint,
                                mapUrl |-> info.mapUrl]
                          ELSE JNull,
     settings |-> s,
     projectName |-> s.projectName,
     operatorName |-> s.operatorName,
     seq |-> n]

\* The log object addLog derives from a photo.
logRecord(photo) ==
    LET loc == photo.location
    IN  [id |-> photo.id,
         timestamp |-> photo.timestamp,
         latitude |-> IF loc.t # "null" THEN JNum(loc.latitude) ELSE JUndef,
         longitude |-> IF loc.t # "null" THEN JNum(loc.longitude) ELSE JUndef,
         accuracy |-> IF loc.t # "null" THEN loc.accuracy ELSE JUndef,
         altitude |-> IF loc.t # "null" THEN loc.altitude ELSE JUndef,
         address |-> photo.address,
         sessionId |-> photo.sessionId,
         projectName |-> photo.projectName,
         operatorName |-> photo.operatorName,
         seq |-> photo.seq]

----------------------------------------------------------------------------
(* Local persistence: JSON.stringify on write, JSON.parse on load *)

\* JSON has no NaN: stringify writes null for it.
JsonValue(v) == IF v.t = "NaN" THEN JNull ELSE v

JsonPhoto(p) ==
    IF p.location.t = "null" THEN p
    ELSE [p EXCEPT !.location.accuracy = JsonValue(@),
                   !.location.altitude = JsonValue(@),
                   !.location.heading = JsonValue(@),
                   !.location.speed = JsonValue(@)]

\* An undefined property is left out by stringify and reads as undefined
\* again after parse.
JsonLog(l) ==
    [l EXCEPT !.accuracy = JsonValue(@), !.altitude = JsonValue(@)]

NoItem == [kind |-> "none"]
\* JSON.stringify of an array of photos / of logs / of the settings object.
StringifyPhotos(ps) == [kind |-> "json", val |-> [i \in 1..Len(ps) |-> JsonPhoto(ps[i])]]
StringifyLogs(ls) == [kind |-> "json", val |-> [i \in 1..Len(ls) |-> JsonLog(ls[i])]]
StringifySettings(s) == [kind |-> "json", val |-> s]

----------------------------------------------------------------------------
(* Helpers of the actions *)

Toast(msg, type) == [msg |-> msg, type |-> type]

NoTimer == [armed |-> FALSE]

\* saveAllPhotos is not running.  at is the index its loop waits at (0: not
\* running), due the time its setTimeout fires; begun and done are history:
\* the photos state.photos held when the last run began, and the photos it
\* has downloaded, by capture ordinal.
NotSaving == [at |-> 0, due |-> 0, begun |-> <<>>, done |-> <<>>]
NoCamCalls == [init |-> 0, switch |-> 0]

Spend(kind) == [budget EXCEPT ![kind] = @ - 1]
SpendN(kind, n) == [budget EXCEPT ![kind] = @ - n]

\* A run of savePhotos that meets a rejected write uses up one of the
\* storage failures the environment may raise.
Failures(writes) == IF writes[1] = "ok" THEN 0 ELSE 1

\* The state of the page after its script has run and DOMContentLoaded has
\* been handled: loadSettings, loadPhotos, loadLogs, initCamera (suspended at
\* getUserMedia), initGeolocation.
loadSettings(item) ==
    IF item.kind = "json" THEN item.val ELSE DefaultSettings
\* loadPhotos / loadLogs: a missing item (or an empty string) and a text
\* JSON.parse rejects leave the initial [] in place; any text JSON.parse
\* accepts is assigned as it is parsed.  isArray tells whether the value
\* assigned is an array; kind "notArray" stands for the JSON texts of an
\* object, a number, a string, a boolean or null.
loadPhotos(item) ==
    IF item.kind = "json" THEN [isArray |-> TRUE, val |-> item.val]
    ELSE IF item.kind = "notArray" THEN [isArray |-> FALSE, val |-> <<>>]
    ELSE [isArray |-> TRUE, val |-> <<>>]
loadLogs(item) ==
    IF item.kind = "json" THEN [isArray |-> TRUE, val |-> item.val]
    ELSE IF item.kind = "notArray" THEN [isArray |-> FALSE, val |-> <<>>]
    ELSE [isArray |-> TRUE, val |-> <<>>]

PageLoaded(ms, rnd, sp, sl, ss) ==
    [stream |-> "null",
     facingMode |-> "environment",
     camPending |-> [init |-> 1, switch |-> 0],
     position |-> JNull,
     locationInfo |-> JNull,
     address |-> InitialAddressText,
     geocodeTimeout |-> NoTimer,
     fetches |-> {},
     settings |-> loadSettings(ss),
     photos |-> loadPhotos(sp).val,
     logs |-> loadLogs(sl).val,
     nonArray |-> [photos |-> ~loadPhotos(sp).isArray,
                   logs |-> ~loadLogs(sl).isArray],
     sessionId |-> generateSessionId(ms, rnd),
     devSaves |-> {},
     toasts |-> <<>>]

InitWith(b, plats, rnds) ==
    /\ now = 0
    /\ storedPhotos = NoItem
    /\ storedLogs = NoItem
    /\ storedSettings = NoItem
    /\ \E rnd \in rnds :
         LET page == PageLoaded(0, rnd, NoItem, NoItem, NoItem)
         IN  /\ stream = page.stream
             /\ facingMode = page.facingMode
             /\ camPending = page.camPending
             /\ position = page.position
             /\ locationInfo = page.locationInfo
             /\ address = page.address
             /\ geocodeTimeout = page.geocodeTimeout
             /\ fetches = page.fetches
             /\ settings = page.settings
             /\ photos = page.photos
             /\ logs = page.logs
             /\ nonArray = page.nonArray
             /\ sessionId = page.sessionId
             /\ devSaves = page.devSaves
             /\ toasts = page.toasts
    /\ platform \in plats
    /\ saveAll = NotSaving
    /\ handed = <<>>
    /\ nCaptured = 0
    /\ fixLog = <<>>
    /\ requests = <<>>
    /\ created = <<>>
    /\ budget = b
    /\ lastOp = [op |-> "load"]

----------------------------------------------------------------------------
(* Camera source *)

\* initCamera up to its await: the old stream's tracks are stopped, the
\* reference in state.stream is kept.
initCameraStart(origin) ==
    /\ stream' = IF stream = "null" THEN "null" ELSE "stopped"
    /\ camPending' = [camPending EXCEPT ![origin] = @ + 1]

switchCamera ==
    /\ budget.cam > 0
    /\ budget' = Spend("cam")
    /\ facingMode' = IF facingMode = "environment" THEN "user" ELSE "environment"
    /\ initCameraStart("switch")
    /\ toasts' = <<>>
    /\ lastOp' = [op |-> "switchCamera"]
    /\ UNCHANGED <<geoVars, now, settings, memVars, sessionId, diskVars,
                   platform, saveAll, devSaves, handed, histVars>>

\* getUserMedia resolves: state.stream is the new stream.
initCameraGranted ==
    \E origin \in {"init", "switch"} :
        /\ camPending[origin] > 0
        /\ camPending' = [camPending EXCEPT ![origin] = @ - 1]
        /\ stream' = "live"
        /\ toasts' = IF origin = "switch"
                     THEN <<Toast("Switched camera", "info")>> ELSE <<>>
        /\ lastOp' = [op |-> "initCamera", granted |-> TRUE]
        /\ UNCHANGED <<facingMode, geoVars, now, settings, memVars, sessionId,
                       diskVars, platform, saveAll, devSaves, handed, histVars, budget>>

\* getUserMedia rejects: the catch block reports; state.stream is untouched.
initCameraDenied ==
    \E origin \in {"init", "switch"} :
        /\ camPending[origin] > 0
        /\ camPending' = [camPending EXCEPT ![origin] = @ - 1]
        /\ toasts' = <<Toast("Camera error", "error")>>
                     \o (IF origin = "switch"
                         THEN <<Toast("Switched camera", "info")>> ELSE <<>>)
        /\ lastOp' = [op |-> "initCamera", granted |-> FALSE]
        /\ UNCHANGED <<stream, facingMode, geoVars, now, settings, memVars,
                       sessionId, diskVars, platform, saveAll, devSaves, handed, histVars, budget>>

\* The page is loaded again (a later session on the same storage): the
\* script's state is rebuilt from localStorage; timers, requests and saves
\* of the old document are gone.
Reload ==
    /\ budget.reloads > 0
    /\ budget' = Spend("reloads")
    /\ \E rnd \in RandSet :
         LET page == PageLoaded(now, rnd, storedPhotos, storedLogs, storedSettings)
         IN  /\ stream' = page.stream
             /\ facingMode' = page.facingMode
             /\ camPending' = page.camPending
             /\ position' = page.position
             /\ locationInfo' = page.locationInfo
             /\ address' = page.address
             /\ geocodeTimeout' = page.geocodeTimeout
             /\ fetches' = page.fetches
             /\ settings' = page.settings
             /\ photos' = page.photos
             /\ logs' = page.logs
             /\ nonArray' = page.nonArray
             /\ sessionId' = page.sessionId
             /\ devSaves' = page.devSaves
             /\ toasts' = page.toasts
    /\ saveAll' = [saveAll EXCEPT !.at = 0]
    /\ lastOp' = [op |-> "load"]
    /\ UNCHANGED <<now, diskVars, platform, handed, histVars>>

\* The photos item or the logs item is replaced from outside the page (by
\* another script of the origin, or by hand): it is removed, or set to a
\* text that is not JSON, or to the JSON text of a value that is not an
\* array.
ForeignItems == {[kind |-> "none"], [kind |-> "unparseable"], [kind |-> "notArray"]}

foreignWrite ==
    \E key \in {"photos", "logs"}, item \in ForeignItems :
        /\ budget.foreign > 0
        /\ budget' = Spend("foreign")
        /\ storedPhotos' = IF key = "photos" THEN item ELSE storedPhotos
        /\ storedLogs' = IF key = "logs" THEN item ELSE storedLogs
        /\ lastOp' = [op |-> "foreignWrite", key |-> key]
        /\ UNCHANGED <<camVars, geoVars, now, settings, memVars, sessionId,
                       storedSettings, platform, saveAll, devSaves, handed, toasts,
                       histVars>>

----------------------------------------------------------------------------
(* Position Tracker *)

\* A variant of reverseGeocode that leaves an armed timer as it is.
reverseGeocodeKeepsArmed(lat, lng) ==
    IF geocodeTimeout.armed THEN geocodeTimeout
    ELSE [armed |-> TRUE, lat |-> lat, lng |-> lng, due |-> now + GeocodeDelay]

\* reverseGeocode(lat, lng): clearTimeout, then setTimeout(..., 1000).
reverseGeocode(lat, lng) ==
    [armed |-> TRUE, lat |-> lat, lng |-> lng, due |-> now + GeocodeDelay]

\* A variant of updatePosition that stores the fix and leaves the
\* descriptor of the previous one in place.
updatePositionKeepsDescriptor(fixes) ==
    \E fix \in fixes :
        /\ budget.fixes > 0
        /\ budget' = Spend("fixes")
        /\ position' = fix
        /\ geocodeTimeout' = reverseGeocode(fix.latitude, fix.longitude)
        /\ fixLog' = Append(fixLog, [at |-> now, lat |-> fix.latitude,
                                     lng |-> fix.longitude])
        /\ toasts' = <<>>
        /\ lastOp' = [op |-> "updatePosition"]
        /\ UNCHANGED <<camVars, locationInfo, address, fetches, now, settings,
                       memVars, sessionId, diskVars, platform, saveAll, devSaves, handed,
                       nCaptured, requests, created>>

updatePositionFrom(fixes) ==
    \E fix \in fixes :
        /\ budget.fixes > 0
        /\ budget' = Spend("fixes")
        /\ position' = fix
        /\ locationInfo' = decipherLocation(fix.latitude, fix.longitude, MonthOf(now))
        /\ geocodeTimeout' = reverseGeocode(fix.latitude, fix.longitude)
        /\ fixLog' = Append(fixLog, [at |-> now, lat |-> fix.latitude,
                                     lng |-> fix.longitude])
        /\ toasts' = <<>>
        /\ lastOp' = [op |-> "updatePosition"]
        /\ UNCHANGED <<camVars, address, fetches, now, settings, memVars,
                       sessionId, diskVars, platform, saveAll, devSaves, handed, nCaptured,
                       requests, created>>

updatePosition == updatePositionFrom(FixSet)

\* updatePosition with a fix anywhere on the survey grid.
updatePositionAnywhere == updatePositionFrom(SurveyFixes)

\* A variant of handleGeoError that drops the fix held and its descriptor.
handleGeoErrorClearsFix ==
    /\ position' = JNull
    /\ locationInfo' = JNull
    /\ toasts' = <<>>
    /\ lastOp' = [op |-> "geoError"]
    /\ UNCHANGED <<camVars, address, geocodeTimeout, fetches, now, settings,
                   memVars, sessionId, diskVars, platform, saveAll, devSaves, handed,
                   histVars, budget>>

\* handleGeoError rewrites the GPS read-outs of the page and nothing else.
handleGeoError ==
    /\ toasts' = <<>>
    /\ lastOp' = [op |-> "geoError"]
    /\ UNCHANGED <<camVars, geoVars, now, settings, memVars, sessionId,
                   diskVars, platform, saveAll, devSaves, handed, histVars, budget>>

\* The debounce timer fires: the callback starts the fetch and suspends.
geocodeTimerFires ==
    /\ geocodeTimeout.armed
    /\ now >= geocodeTimeout.due
    /\ fetches' = fetches \cup {[n |-> Len(requests) + 1,
                                 lat |-> geocodeTimeout.lat,
                                 lng |-> geocodeTimeout.lng]}
    /\ requests' = Append(requests, [at |-> now, lat |-> geocodeTimeout.lat,
                                     lng |-> geocodeTimeout.lng,
                                     outcome |-> "pending"])
    /\ geocodeTimeout' = NoTimer
    /\ toasts' = <<>>
    /\ lastOp' = [op |-> "geocodeRequest"]
    /\ UNCHANGED <<camVars, position, locationInfo, address, now, settings,
                   memVars, sessionId, diskVars, platform, saveAll, devSaves, handed, nCaptured,
                   fixLog, created, budget>>

\* A reverse-geocode response arrives: with a display_name, without one, or
\* the fetch / the JSON parse fails.
geocodeResponse ==
    \E f \in fetches, outcome \in {"named", "unnamed", "failed"} :
        /\ fetches' = fetches \ {f}
        /\ address' = CASE outcome = "named" -> DisplayName(f.lat, f.lng)
                        [] outcome = "unnamed" -> address
                        [] outcome = "failed" -> AddressUnavailable
        /\ toasts' = <<>>
        /\ requests' = [requests EXCEPT ![f.n].outcome = outcome]
        /\ lastOp' = [op |-> "geocodeResponse", n |-> f.n, outcome |-> outcome]
        /\ UNCHANGED <<camVars, position, locationInfo, geocodeTimeout, now,
                       settings, memVars, sessionId, diskVars, platform, saveAll,
                       devSaves, handed, nCaptured, fixLog, created, budget>>

\* Time passes: by one quantum, or up to the instant the armed timer is due.
\* A due timer fires before time moves on.
Tick ==
    \E d \in {TickMs} \cup (IF geocodeTimeout.armed /\ geocodeTimeout.due > now
                            THEN {geocodeTimeout.due - now} ELSE {}) :
        /\ now + d <= MaxTime
        /\ geocodeTimeout.armed => now + d <= geocodeTimeout.due
        /\ now' = now + d
        /\ UNCHANGED <<camVars, geoVars, settings, memVars, sessionId, diskVars,
                       platform, saveAll, devSaves, handed, toasts, histVars, budget, lastOp>>

\* Time passes up to the instant the armed timer is due, and no further.
timerComesDue ==
    /\ geocodeTimeout.armed
    /\ geocodeTimeout.due > now
    /\ now' = geocodeTimeout.due
    /\ UNCHANGED <<camVars, geoVars, settings, memVars, sessionId, diskVars,
                   platform, saveAll, devSaves, handed, toasts, histVars, budget, lastOp>>

----------------------------------------------------------------------------
(* Record Store *)

\* A variant of savePhotos that writes incrementally: the newest photo is
\* put in front of what the photos item holds.
savePhotosAppendsOne(ps, old, writes) ==
    IF writes[1] = "ok"
    THEN [photos |-> ps,
          stored |-> [kind |-> "json",
                      val |-> <<JsonPhoto(ps[1])>>
                                 \o (IF old.kind = "json" THEN old.val ELSE <<>>)],
          calls |-> 1, threw |-> FALSE]
    ELSE [photos |-> ps, stored |-> old, calls |-> 1, threw |-> FALSE]

\* A variant of savePhotos that trims and retries on any rejected write.
savePhotosTrimsOnAnyError(ps, old, writes) ==
    IF writes[1] = "ok"
    THEN [photos |-> ps, stored |-> StringifyPhotos(Slice(ps, PersistCap)),
          calls |-> 1, threw |-> FALSE]
    ELSE [photos |-> Slice(ps, QuotaCap),
          stored |-> StringifyPhotos(Slice(ps, QuotaCap)),
          calls |-> 2, threw |-> FALSE]

\* Variants of savePhotos: one that persists the whole collection, one
\* whose catch block trims without writing again.
savePhotosUncapped(ps, old, writes) ==
    IF writes[1] = "ok"
    THEN [photos |-> ps, stored |-> StringifyPhotos(ps), calls |-> 1,
          threw |-> FALSE]
    ELSE IF writes[1] = "quota"
    THEN [photos |-> Slice(ps, QuotaCap),
          stored |-> IF writes[2] = "ok"
                     THEN StringifyPhotos(Slice(ps, QuotaCap)) ELSE old,
          calls |-> 2, threw |-> writes[2] # "ok"]
    ELSE [photos |-> ps, stored |-> old, calls |-> 1, threw |-> FALSE]

savePhotosNoRetry(ps, old, writes) ==
    IF writes[1] = "ok"
    THEN [photos |-> ps, stored |-> StringifyPhotos(Slice(ps, PersistCap)),
          calls |-> 1, threw |-> FALSE]
    ELSE IF writes[1] = "quota"
    THEN [photos |-> Slice(ps, QuotaCap), stored |-> old, calls |-> 1,
          threw |-> FALSE]
    ELSE [photos |-> ps, stored |-> old, calls |-> 1, threw |-> FALSE]

\* A variant in which the records hold state.settings itself instead of a
\* copy: every record shows the settings of the moment.
savePhotosSharingSettings(ps, old, writes) ==
    LET shared == [i \in 1..Len(ps) |-> [ps[i] EXCEPT !.settings = ps[1].settings]]
    IN  [photos |-> shared, stored |-> StringifyPhotos(Slice(shared, PersistCap)),
         calls |-> 1, threw |-> FALSE]

\* savePhotos on the collection ps, the photos item holding old; writes are
\* the outcomes of the setItem calls it makes, in order.  The retry in the
\* catch block is outside any try: when it is rejected too, savePhotos
\* throws.
savePhotos(ps, old, writes) ==
    IF writes[1] = "ok"
    THEN [photos |-> ps, stored |-> StringifyPhotos(Slice(ps, PersistCap)),
          calls |-> 1, threw |-> FALSE]
    ELSE IF writes[1] = "quota"
    THEN [photos |-> Slice(ps, QuotaCap),
          stored |-> IF writes[2] = "ok"
                     THEN StringifyPhotos(Slice(ps, QuotaCap)) ELSE old,
          calls |-> 2, threw |-> writes[2] # "ok"]
    ELSE [photos |-> ps, stored |-> old, calls |-> 1, threw |-> FALSE]

\* The setItem outcomes savePhotos can meet: accepted | rejected for another
\* reason than quota | rejected over quota, then the retry accepted or not.
PhotoWrites == {<<"ok">>, <<"error">>, <<"quota", "ok">>, <<"quota", "quota">>}

\* saveLogs: a rejected write is caught and logged.
saveLogs(ls, old, write) ==
    IF write = "ok" THEN StringifyLogs(ls) ELSE old

\* A variant of addLog that keeps the 50 newest logs.
addLogCapped(ls, photo) == Slice(Unshift(ls, logRecord(photo)), PersistCap)

\* addLog(photo): state.logs.unshift(log).
addLog(ls, photo) == Unshift(ls, logRecord(photo))

----------------------------------------------------------------------------
(* Device save *)

\* saveToDevice(photo) up to its first await, by what the browser offers:
\* the picker is opened, or the image is fetched for sharing, or (neither
\* API) the photo is downloaded at once.
saveToDeviceStart(photo, plat) ==
    IF plat = "download"
    THEN [pending |-> {},
          handed |-> <<[seq |-> photo.seq, id |-> photo.id, channel |-> "download"]>>,
          toasts |-> <<Toast("Photo downloaded!", "success")>>]
    ELSE [pending |-> {[seq |-> photo.seq, id |-> photo.id, channel |-> plat]},
          handed |-> IF plat = "picker"
                     THEN <<[seq |-> photo.seq, id |-> photo.id, channel |-> "picker"]>>
                     ELSE <<>>,
          toasts |-> <<>>]

----------------------------------------------------------------------------
(* Capture Orchestrator *)

\* The guard of capturePhoto: !state.stream.  The variant captures whatever
\* the stream is.
cameraReadyUnguarded(str) == TRUE
\* The variant that also wants a position fix.
cameraReadyNeedsFix(str) == str # "null" /\ position.t # "null"
cameraReady(str) == str # "null"

\* capturePhoto draws the overlay (lines 366-372) and assembles the record
\* (lines 391-422) with no await in between: the settings, fix and
\* descriptor the record copies are the ones the overlay was drawn from.
\* The variant yields to the event loop in between, where saveSettings or
\* updatePosition may run.
readAtAssemblyAfterYield(s, pos, info) ==
    { [settings |-> s2, position |-> p2,
       locationInfo |-> IF p2 = pos THEN info
                        ELSE decipherLocation(p2.latitude, p2.longitude,
                                              MonthOf(now))] :
        s2 \in SettingsForms \cup {s}, p2 \in FixSet \cup {pos} }
readAtAssembly(s, pos, info) ==
    {[settings |-> s, position |-> pos, locationInfo |-> info]}

\* capturePhoto, run at time ms with Math.random drawn from rnds.  The
\* function has no await: it runs in one turn, down to the call of
\* saveToDevice, which runs to its own first await.  unshift is a TypeError
\* on a value that is not an array: state.photos.unshift (line 425) then
\* ends the run before anything is stored, state.logs.unshift (line 594)
\* ends it after the photo has been stored.
capturePhotoAt(ms, rnds) ==
    /\ budget.captures > 0
    /\ now' = ms
    /\ IF ~cameraReady(stream)
       THEN /\ toasts' = <<Toast("Camera not ready", "error")>>
            /\ lastOp' = [op |-> "capture", outcome |-> "notReady",
                          after |-> lastOp.op]
            /\ budget' = Spend("captures")
            /\ UNCHANGED <<memVars, diskVars, devSaves, handed, nCaptured, created>>
       ELSE \E rnd \in rnds, writes \in PhotoWrites, logWrite \in {"ok", "quota"},
               snap \in readAtAssembly(settings, position, locationInfo) :
            LET image == composeImage(settings, position, stream)
                photo == photoRecord(generatePhotoId(ms, rnd), sessionId, image,
                                     snap.settings, snap.position,
                                     snap.locationInfo, address, ms,
                                     nCaptured + 1)
                appended == ~nonArray.photos
                saved == IF appended
                         THEN savePhotos(Unshift(photos, photo), storedPhotos, writes)
                         ELSE [photos |-> photos, stored |-> storedPhotos,
                               calls |-> 0, threw |-> TRUE]
                logged == ~saved.threw /\ ~nonArray.logs
                fails == (IF appended THEN Failures(writes) ELSE 0)
                        + (IF logged /\ logWrite # "ok" THEN 1 ELSE 0)
                dev == IF snap.settings.autoSave
                       THEN saveToDeviceStart(photo, platform)
                       ELSE [pending |-> {}, handed |-> <<>>,
                             toasts |-> <<Toast("Photo captured!", "success")>>]
            IN  /\ fails <= budget.fails
                /\ ~appended => writes = <<"ok">>
                /\ ~logged => logWrite = "ok"
                /\ budget' = [budget EXCEPT !.captures = @ - 1, !.fails = @ - fails]
                /\ nCaptured' = nCaptured + 1
                /\ created' = Append(created, [id |-> photo.id, seq |-> photo.seq,
                                               sessionId |-> sessionId,
                                               logged |-> logged])
                /\ photos' = saved.photos
                /\ storedPhotos' = saved.stored
                /\ IF ~logged
                   THEN /\ UNCHANGED <<logs, storedLogs, devSaves, handed>>
                        /\ toasts' = <<>>
                        /\ lastOp' = [op |-> "capture",
                                      outcome |-> IF appended THEN "threw"
                                                  ELSE "notAppended",
                                      seq |-> nCaptured + 1, stream |-> stream,
                                      writes |-> writes, calls |-> saved.calls,
                                      logWrite |-> logWrite, started |-> FALSE,
                                      after |-> lastOp.op]
                   ELSE /\ logs' = addLog(logs, photo)
                        /\ storedLogs' = saveLogs(addLog(logs, photo), storedLogs,
                                                  logWrite)
                        /\ devSaves' = devSaves \cup dev.pending
                        /\ handed' = handed \o dev.handed
                        /\ toasts' = dev.toasts
                        /\ lastOp' = [op |-> "capture", outcome |-> "recorded",
                                      seq |-> nCaptured + 1, stream |-> stream,
                                      writes |-> writes, calls |-> saved.calls,
                                      logWrite |-> logWrite,
                                      started |-> snap.settings.autoSave,
                                      after |-> lastOp.op]
                /\ UNCHANGED <<nonArray, storedSettings>>
    /\ UNCHANGED <<camVars, geoVars, settings, sessionId, platform, saveAll, fixLog,
                   requests>>

\* A capture in the millisecond of the previous event, Math.random free.
capturePhoto == capturePhotoAt(now, RandSet)

\* A capture at least a millisecond after the previous event: the
\* timestamp part of its id is new.
captureLater == capturePhotoAt(now + 1, {0})

\* The notice saveToDevice shows when it settles.  The variant is the catch
\* block that shows nothing on AbortError.
settleToastSilentCancel(channel, outcome) ==
    CASE outcome = "abort" -> <<>>
      [] outcome = "error" -> <<Toast("Photo captured (saved to app)", "success")>>
      [] outcome = "done" /\ channel = "shareNoFiles" ->
           <<Toast("Photo downloaded!", "success")>>
      [] OTHER -> <<Toast("Photo saved!", "success")>>

settleToast(channel, outcome) ==
    CASE outcome = "abort" -> <<Toast("Photo captured!", "success")>>
      [] outcome = "error" -> <<Toast("Photo captured (saved to app)", "success")>>
      [] outcome = "done" /\ channel = "shareNoFiles" ->
           <<Toast("Photo downloaded!", "success")>>
      [] OTHER -> <<Toast("Photo saved!", "success")>>

\* A variant of the settling in which a save that did not complete takes
\* the photo out of state.photos again and rethrows.
saveToDeviceRollsBack ==
    \E d \in devSaves, outcome \in {"abort", "error"} :
        /\ devSaves' = devSaves \ {d}
        /\ photos' = SelectSeq(photos, LAMBDA p : p.seq # d.seq)
        /\ toasts' = <<>>
        /\ lastOp' = [op |-> "deviceSave", seq |-> d.seq, outcome |-> outcome,
                      escaped |-> TRUE]
        /\ UNCHANGED <<camVars, geoVars, now, settings, logs, nonArray, sessionId,
                       diskVars, platform, saveAll, handed, histVars, budget>>

\* A variant of the settling in which a save that failed or was cancelled
\* falls back to the direct download.
saveToDeviceFallsBack ==
    \E d \in devSaves, outcome \in {"done", "abort", "error"} :
        /\ devSaves' = devSaves \ {d}
        /\ d.channel = "shareNoFiles" => outcome # "abort"
        /\ handed' = IF outcome # "done" \/ d.channel = "shareNoFiles"
                     THEN Append(handed, [seq |-> d.seq, id |-> d.id,
                                          channel |-> "download"])
                     ELSE IF d.channel = "share"
                     THEN Append(handed, [seq |-> d.seq, id |-> d.id,
                                          channel |-> "share"])
                     ELSE handed
        /\ toasts' = settleToast(d.channel, outcome)
        /\ lastOp' = [op |-> "deviceSave", seq |-> d.seq, outcome |-> outcome,
                      escaped |-> FALSE]
        /\ UNCHANGED <<camVars, geoVars, now, settings, memVars, sessionId,
                       diskVars, platform, saveAll, histVars, budget>>

\* A suspended saveToDevice settles: the save completes, the user cancels
\* it (AbortError), or a step of it fails.  The steps between its awaits
\* touch nothing of the program's state and are taken as one.  The whole
\* body is inside try / catch: nothing is thrown out of saveToDevice.
saveToDeviceSettles ==
    \E d \in devSaves, outcome \in {"done", "abort", "error"} :
        /\ devSaves' = devSaves \ {d}
        /\ d.channel = "shareNoFiles" => outcome # "abort"
        /\ handed' = IF outcome = "error" \/ d.channel = "picker" THEN handed
                     ELSE IF d.channel = "share"
                     THEN Append(handed, [seq |-> d.seq, id |-> d.id,
                                          channel |-> "share"])
                     ELSE Append(handed, [seq |-> d.seq, id |-> d.id,
                                          channel |-> "download"])
        /\ toasts' = settleToast(d.channel, outcome)
        /\ lastOp' = [op |-> "deviceSave", seq |-> d.seq, outcome |-> outcome,
                      escaped |-> FALSE]
        /\ UNCHANGED <<camVars, geoVars, now, settings, memVars, sessionId,
                       diskVars, platform, saveAll, histVars, budget>>

\* saveAllPhotos up to its first await: refused on an empty state.photos;
\* else the first photo is downloaded and the loop waits 400 ms.  On a
\* state.photos that is not an array length is undefined: the loop body
\* never runs and the closing notice is shown.
saveAllPhotos ==
    /\ budget.batches > 0
    /\ saveAll.at = 0
    /\ budget' = Spend("batches")
    /\ IF nonArray.photos
       THEN /\ saveAll' = [NotSaving EXCEPT !.begun = <<>>]
            /\ toasts' = <<Toast("Saving photos...", "info"),
                           Toast("Saved photos!", "success")>>
            /\ lastOp' = [op |-> "saveAll", outcome |-> "finished"]
       ELSE IF photos = <<>>
       THEN /\ saveAll' = NotSaving
            /\ toasts' = <<Toast("No photos to save", "error")>>
            /\ lastOp' = [op |-> "saveAll", outcome |-> "refused"]
       ELSE /\ saveAll' = [at |-> 1, due |-> now + SaveAllDelay,
                           begun |-> [i \in 1..Len(photos) |-> photos[i].seq],
                           done |-> <<photos[1].seq>>]
            /\ toasts' = <<Toast("Saving photos...", "info"),
                           Toast("Photo downloaded!", "success")>>
            /\ lastOp' = [op |-> "saveAll", outcome |-> "waiting"]
    /\ UNCHANGED <<camVars, geoVars, now, settings, memVars, sessionId, diskVars,
                   platform, devSaves, handed, histVars>>

\* The setTimeout of the loop fires: i++, then the test i <
\* state.photos.length against the collection as it is now, and either the
\* download of state.photos[i] and the next wait, or the closing notice.
saveAllPhotosResumes ==
    /\ saveAll.at > 0
    /\ now' = IF now < saveAll.due THEN saveAll.due ELSE now
    /\ IF saveAll.at < Len(photos)
       THEN /\ saveAll' = [saveAll EXCEPT
                              !.at = @ + 1,
                              !.due = now' + SaveAllDelay,
                              !.done = Append(@, photos[saveAll.at + 1].seq)]
            /\ toasts' = <<Toast("Photo downloaded!", "success")>>
            /\ lastOp' = [op |-> "saveAll", outcome |-> "waiting"]
       ELSE /\ saveAll' = [saveAll EXCEPT !.at = 0]
            /\ toasts' = <<Toast("Saved photos!", "success")>>
            /\ lastOp' = [op |-> "saveAll", outcome |-> "finished"]
    /\ UNCHANGED <<camVars, geoVars, settings, memVars, sessionId, diskVars,
                   platform, devSaves, handed, histVars, budget>>

----------------------------------------------------------------------------
(* Settings and log maintenance *)

\* saveSettings with the form holding one of forms: the form replaces
\* state.settings, then setItem, outside any try.
saveSettingsFrom(forms) ==
    \E form \in forms, write \in {"ok", "quota"} :
        /\ budget.saves > 0
        /\ write # "ok" => budget.fails > 0
        /\ budget' = [budget EXCEPT !.saves = @ - 1,
                                    !.fails = IF write = "ok" THEN @ ELSE @ - 1]
        /\ settings' = form
        /\ storedSettings' = IF write = "ok" THEN StringifySettings(form)
                             ELSE storedSettings
        /\ toasts' = IF write = "ok" THEN <<Toast("Settings saved", "success")>>
                     ELSE <<>>
        /\ lastOp' = [op |-> "saveSettings", threw |-> write # "ok"]
        /\ UNCHANGED <<camVars, geoVars, now, memVars, sessionId, storedPhotos,
                       storedLogs, platform, saveAll, devSaves, handed, histVars>>

saveSettings == saveSettingsFrom(SettingsForms)

\* Save pressed with a project and an operator name typed in.
saveNamedSettings == saveSettingsFrom(NamedForms)

clearLogs ==
    \E confirmed \in BOOLEAN, write \in {"ok", "quota"} :
        /\ write # "ok" => confirmed /\ budget.fails > 0
        /\ budget' = IF write = "ok" THEN budget ELSE Spend("fails")
        /\ logs' = IF confirmed THEN <<>> ELSE logs
        /\ nonArray' = IF confirmed THEN [nonArray EXCEPT !.logs = FALSE]
                       ELSE nonArray
        /\ storedLogs' = IF confirmed THEN saveLogs(<<>>, storedLogs, write)
                         ELSE storedLogs
        /\ toasts' = IF confirmed THEN <<Toast("Logs cleared", "success")>> ELSE <<>>
        /\ lastOp' = [op |-> "clearLogs", confirmed |-> confirmed]
        /\ UNCHANGED <<camVars, geoVars, now, settings, photos, sessionId,
                       storedPhotos, storedSettings, platform, saveAll, devSaves, handed,
                       histVars>>

----------------------------------------------------------------------------
(* Log export *)

\* Texts are sequences of characters.  The characters that matter to a CSV
\* file are kept: the comma, the double quote, the line feed; a run of
\* other characters is one element.
Comma == ","
Quote == "\""
LineFeed == "\n"

\* The characters of a project or operator name.
NameText(name) ==
    CASE name = "" -> <<>>
      [] name = "Site 7, North" -> <<"Site 7", Comma, " North">>
      [] name = "\"Gate 3" -> <<Quote, "Gate 3">>
      [] name = "Ana, \"QA\"" -> <<"Ana", Comma, " ", Quote, "QA", Quote>>
      [] OTHER -> <<name>>

\* The characters of an id: IMG-<timestamp>-<random>, TC-<timestamp>-<random>.
IdText(id) == <<id.prefix, ToString(id.timestamp), ToString(id.random)>>

\* The characters of the address text: a display_name lists the parts of
\* the place separated by commas, and may quote a name.
AddressText(addr) ==
    IF addr.kind = "display_name"
    THEN IF addr.lat > 0
         THEN <<"road", Comma, " town", Comma, " country">>
         ELSE <<Quote, "The Pier", Quote, Comma, " town">>
    ELSE <<addr.kind>>

\* new Date().toLocaleString(): with a comma between date and time in most
\* locales, without one in others.
LocalTimeTexts == {<<"date", Comma, " time">>, <<"date time">>}

\* value || '' of exportLogs on a numeric field: undefined, null, NaN and 0
\* give the empty string.
NumberOrEmpty(v) ==
    IF v.t = "number" /\ v.v # 0 THEN <<ToString(v.v)>> ELSE <<>>

\* String.prototype.replace(/"/g, '""')
RECURSIVE DoubleQuotes(_)
DoubleQuotes(text) ==
    IF text = <<>> THEN <<>>
    ELSE (IF Head(text) = Quote THEN <<Quote, Quote>> ELSE <<Head(text)>>)
         \o DoubleQuotes(Tail(text))

\* Array.prototype.join(sep) on an array of texts.
RECURSIVE Join(_, _)
Join(texts, sep) ==
    IF texts = <<>> THEN <<>>
    ELSE IF Len(texts) = 1 THEN texts[1]
    ELSE texts[1] \o <<sep>> \o Join(Tail(texts), sep)

CsvHeaders ==
    << <<"ID">>, <<"Timestamp (UTC)">>, <<"Timestamp (Local)">>, <<"Timezone">>,
       <<"Latitude">>, <<"Longitude">>, <<"Accuracy (m)">>, <<"Altitude (m)">>,
       <<"Address">>, <<"Session ID">>, <<"Project">>, <<"Operator">> >>

\* The array exportLogs builds for one log; local is the text of
\* log.timestampLocal.
CsvRow(log, local) ==
    << IdText(log.id),
       <<ToString(log.timestamp)>>,
       local,
       <<"zone">>,
       NumberOrEmpty(log.latitude),
       NumberOrEmpty(log.longitude),
       NumberOrEmpty(log.accuracy),
       NumberOrEmpty(log.altitude),
       <<Quote>> \o DoubleQuotes(AddressText(log.address)) \o <<Quote>>,
       IdText(log.sessionId),
       NameText(log.projectName),
       NameText(log.operatorName) >>

\* The text of the file: the header line and one line per log.
CsvText(ls, local) ==
    Join(<<Join(CsvHeaders, Comma)>>
         \o [i \in 1..Len(ls) |-> Join(CsvRow(ls[i], local), Comma)],
         LineFeed)

\* exportLogs: refused when there is no log, else the file is built and
\* handed to the browser as a download.  On a state.logs that is not an
\* array, .length is not 0 and .map is a TypeError.
exportLogs ==
    \E local \in LocalTimeTexts :
        /\ IF nonArray.logs
           THEN /\ toasts' = <<>>
                /\ lastOp' = [op |-> "exportLogs", outcome |-> "threw"]
           ELSE IF logs = <<>>
           THEN /\ toasts' = <<Toast("No logs to export", "error")>>
                /\ lastOp' = [op |-> "exportLogs", outcome |-> "refused"]
           ELSE /\ toasts' = <<Toast("Logs exported!", "success")>>
                /\ lastOp' = [op |-> "exportLogs", outcome |-> "exported",
                              local |-> local, csv |-> CsvText(logs, local)]
        /\ UNCHANGED <<camVars, geoVars, now, settings, memVars, sessionId,
                       diskVars, platform, saveAll, devSaves, handed, histVars, budget>>

\* A number is truthy unless it is 0 or NaN; undefined and null are falsy.
Truthy(v) == v.t = "number" /\ v.v # 0

\* The location line showLogs renders for a log: the coordinates under
\* log.latitude ? ..., else the 'No location' text.
logLocationLine(log) ==
    IF Truthy(log.latitude)
    THEN [kind |-> "coords", latitude |-> toFixed6(log.latitude.v),
          longitude |-> toFixed6(log.longitude.v)]
    ELSE [kind |-> "No location"]

\* showLogs: the list is rendered from state.logs; nothing of the state is
\* changed.  On a state.logs that is not an array map is not a function.
showLogs ==
    /\ toasts' = <<>>
    /\ lastOp' = IF nonArray.logs
                 THEN [op |-> "showLogs", outcome |-> "threw"]
                 ELSE [op |-> "showLogs", outcome |-> "shown",
                       lines |-> [i \in 1..Len(logs) |-> logLocationLine(logs[i])]]
    /\ UNCHANGED <<camVars, geoVars, now, settings, memVars, sessionId,
                   diskVars, platform, saveAll, devSaves, handed, histVars, budget>>

----------------------------------------------------------------------------
(* Specifications *)

NoEvents == [captures |-> 0, fails |-> 0, fixes |-> 0, cam |-> 0, saves |-> 0,
             reloads |-> 0, foreign |-> 0, batches |-> 0]

\* The capture pipeline: camera, captures with accepted and rejected
\* storage writes, and later sessions on the same storage.
Init ==
    InitWith([NoEvents EXCEPT !.captures = MaxCaptures, !.fails = MaxWriteFailures,
                              !.cam = MaxCamCalls, !.reloads = MaxReloads],
             {"picker", "download"}, {0})

Next ==
    \/ switchCamera
    \/ initCameraGranted
    \/ initCameraDenied
    \/ captureLater
    \/ Reload

Spec == Init /\ [][Next]_vars

\* The store under a long run of captures, each in a millisecond of its
\* own, with the default settings and no position fix.
InitStore ==
    InitWith([NoEvents EXCEPT !.captures = MaxStoreCaptures,
                              !.fails = MaxStoreFailures],
             {"download"}, {0})

NextStore ==
    \/ initCameraGranted
    \/ captureLater

SpecStore == InitStore /\ [][NextStore]_vars

\* The position tracker in time: fixes, the debounce timer, the lookups.
InitGeo == InitWith([NoEvents EXCEPT !.fixes = MaxFixes], {"download"}, {0})

NextGeo ==
    \/ updatePosition
    \/ handleGeoError
    \/ geocodeTimerFires
    \/ geocodeResponse
    \/ Tick

SpecGeo == InitGeo /\ [][NextGeo]_vars

\* Captures among the events that change what a capture reads: position
\* updates and saved settings.
InitSnap ==
    InitWith([NoEvents EXCEPT !.captures = MaxSnapCaptures,
                              !.fixes = MaxSnapEvents, !.saves = MaxSnapEvents],
             {"picker"}, {0})

NextSnap ==
    \/ initCameraGranted
    \/ updatePosition
    \/ saveSettings
    \/ captureLater

SpecSnap == InitSnap /\ [][NextSnap]_vars

\* The records over sessions: captures in one millisecond and in later
\* ones, cleared logs, page loads, and storage items replaced from outside.
InitLife ==
    InitWith([NoEvents EXCEPT !.captures = MaxLifeCaptures,
                              !.fails = MaxLifeEvents, !.reloads = MaxLifeEvents,
                              !.foreign = MaxLifeEvents],
             {"download"}, {0})

NextLife ==
    \/ initCameraGranted
    \/ capturePhoto
    \/ captureLater
    \/ clearLogs
    \/ Reload
    \/ foreignWrite

SpecLife == InitLife /\ [][NextLife]_vars

\* Stored records among everything that runs after their capture: position
\* fixes, address lookups, saved settings, further captures, device saves
\* settling, cleared logs.
InitFrame ==
    InitWith([NoEvents EXCEPT !.captures = MaxFrameCaptures,
                              !.fixes = MaxFrameEvents, !.saves = MaxFrameEvents,
                              !.fails = MaxFrameEvents],
             {"picker"}, {0})

NextFrame ==
    \/ initCameraGranted
    \/ updatePosition
    \/ geocodeTimerFires
    \/ geocodeResponse
    \/ timerComesDue
    \/ saveSettings
    \/ captureLater
    \/ saveToDeviceSettles
    \/ clearLogs

SpecFrame == InitFrame /\ [][NextFrame]_vars

\* Captures with the device save: each surface the browser may offer, the
\* save completing, cancelled or failing, autoSave on and off.
InitSave ==
    InitWith([NoEvents EXCEPT !.captures = MaxSaveCaptures,
                              !.saves = MaxSaveEvents, !.fails = MaxSaveEvents],
             Platforms, {0})

NextSave ==
    \/ initCameraGranted
    \/ saveSettings
    \/ captureLater
    \/ saveToDeviceSettles

SpecSave == InitSave /\ [][NextSave]_vars

\* Captures among position fixes and location errors.
InitLoc ==
    InitWith([NoEvents EXCEPT !.captures = MaxLocCaptures, !.fixes = MaxLocFixes,
                              !.fails = MaxWriteFailures],
             {"download"}, {0})

NextLoc ==
    \/ initCameraGranted
    \/ updatePosition
    \/ handleGeoError
    \/ captureLater

SpecLoc == InitLoc /\ [][NextLoc]_vars

\* The position tracker over sessions: fixes, location errors, captures
\* and page loads.
InitTrack ==
    InitWith([NoEvents EXCEPT !.captures = MaxLocCaptures, !.fixes = MaxLocFixes,
                              !.reloads = MaxReloads],
             {"download"}, {0})

NextTrack ==
    \/ initCameraGranted
    \/ updatePosition
    \/ handleGeoError
    \/ captureLater
    \/ Reload

SpecTrack == InitTrack /\ [][NextTrack]_vars

\* A session on the storage an earlier session left: the photos and logs
\* of its captures (default settings, no fix), one short of the cap.
EarlierPhotos ==
    [k \in 1..MaxEarlierPhotos |->
        LET n == MaxEarlierPhotos + 1 - k
            ms == n - MaxEarlierPhotos - 1
        IN  photoRecord(generatePhotoId(ms, 0),
                        generateSessionId(-MaxEarlierPhotos - 1, 0),
                        composeImage(DefaultSettings, JNull, "live"),
                        DefaultSettings, JNull, JNull, InitialAddressText, ms, n)]

EarlierLogs == [k \in 1..MaxEarlierPhotos |-> logRecord(EarlierPhotos[k])]

InitSession ==
    /\ now = 0
    /\ storedPhotos = StringifyPhotos(EarlierPhotos)
    /\ storedLogs = StringifyLogs(EarlierLogs)
    /\ storedSettings = NoItem
    /\ LET page == PageLoaded(0, 0, storedPhotos, storedLogs, storedSettings)
       IN  /\ stream = page.stream
           /\ facingMode = page.facingMode
           /\ camPending = page.camPending
           /\ position = page.position
           /\ locationInfo = page.locationInfo
           /\ address = page.address
           /\ geocodeTimeout = page.geocodeTimeout
           /\ fetches = page.fetches
           /\ settings = page.settings
           /\ photos = page.photos
           /\ logs = page.logs
           /\ nonArray = page.nonArray
           /\ sessionId = page.sessionId
           /\ devSaves = page.devSaves
           /\ toasts = page.toasts
    /\ platform = "download"
    /\ saveAll = NotSaving
    /\ handed = <<>>
    /\ nCaptured = MaxEarlierPhotos
    /\ fixLog = <<>>
    /\ requests = <<>>
    /\ created = <<>>
    /\ budget = [NoEvents EXCEPT !.captures = MaxSessionCaptures,
                                 !.fixes = MaxSessionEvents,
                                 !.fails = MaxSessionEvents,
                                 !.reloads = MaxSessionEvents]
    /\ lastOp = [op |-> "load"]

NextSession ==
    \/ initCameraGranted
    \/ updatePosition
    \/ captureLater
    \/ Reload

SpecSession == InitSession /\ [][NextSession]_vars

\* A capture among fixes and their address lookups.
InitAddr ==
    InitWith([NoEvents EXCEPT !.captures = MaxAddrCaptures, !.fixes = MaxAddrFixes],
             {"download"}, {0})

NextAddr ==
    \/ initCameraGranted
    \/ updatePosition
    \/ timerComesDue
    \/ geocodeTimerFires
    \/ geocodeResponse
    \/ captureLater

SpecAddr == InitAddr /\ [][NextAddr]_vars

\* Save All among captures, with accepted and rejected storage writes.
InitBatch ==
    InitWith([NoEvents EXCEPT !.captures = MaxBatchCaptures, !.batches = MaxBatches,
                              !.fails = MaxBatchFailures],
             {"download"}, {0})

NextBatch ==
    \/ initCameraGranted
    \/ captureLater
    \/ saveAllPhotos
    \/ saveAllPhotosResumes

SpecBatch == InitBatch /\ [][NextBatch]_vars

\* The log export: logs of captures made under typed-in names, with and
\* without a fix and a looked-up address, then exported.
InitCsv ==
    InitWith([NoEvents EXCEPT !.captures = MaxCsvCaptures, !.fixes = MaxCsvEvents,
                              !.saves = MaxCsvEvents],
             {"download"}, {0})

NextCsv ==
    \/ initCameraGranted
    \/ saveNamedSettings
    \/ updatePosition
    \/ timerComesDue
    \/ geocodeTimerFires
    \/ geocodeResponse
    \/ captureLater
    \/ exportLogs
    \/ showLogs

SpecCsv == InitCsv /\ [][NextCsv]_vars

\* The location descriptor: fixes over the whole coordinate range.
InitPlace ==
    InitWith([NoEvents EXCEPT !.fixes = MaxPlaceFixes], {"download"}, {0})

NextPlace ==
    \/ initCameraGranted
    \/ updatePositionAnywhere

SpecPlace == InitPlace /\ [][NextPlace]_vars

----------------------------------------------------------------------------
(* Properties of the capture pipeline *)

\* The last handler run was a capturePhoto that put a photo in state.photos.
CaptureAppended ==
    lastOp.op = "capture" /\ lastOp.outcome \in {"recorded", "threw"}

\* A log of the collection ls derived from photo p.
HasLogOf(ls, p) ==
    \E i \in 1..Len(ls) :
        /\ ls[i].id = p.id
        /\ ls[i].sessionId = p.sessionId
        /\ ls[i].seq = p.seq

\* C1: after every capturePhoto run that has added a photo to state.photos,
\* whatever the storage did, state.logs holds a log with that photo's id and
\* session id.
C1_LogForEveryAppendedPhoto ==
    CaptureAppended =>
        /\ Len(photos) > 0
        /\ photos[1].seq = lastOp.seq
        /\ HasLogOf(logs, photos[1])

\* C2: a capture triggered while state.stream is null appends no photo and
\* no log, in memory or in storage, starts no device save, and shows the
\* error toast 'Camera not ready'.
C2_NullStreamCaptureRecordsNothing ==
    [][(budget'.captures < budget.captures /\ stream = "null") =>
          /\ UNCHANGED <<photos, logs, storedPhotos, storedLogs, devSaves, handed>>
          /\ toasts' = <<Toast("Camera not ready", "error")>>]_vars

C2_Witness ==
    /\ lastOp.op = "capture"
    /\ lastOp.outcome = "notReady"
    /\ stream = "null"
    /\ toasts = <<Toast("Camera not ready", "error")>>

\* C5: when the retry after a quota rejection is rejected too, the photo
\* just captured stays in state.photos and the capture completes its cycle:
\* its log is appended.
C5_RetryFailureCompletesCycle ==
    (lastOp.op = "capture" /\ lastOp.outcome # "notReady"
       /\ lastOp.writes = <<"quota", "quota">>) =>
        /\ \E i \in 1..Len(photos) : photos[i].seq = lastOp.seq
        /\ \E i \in 1..Len(logs) : logs[i].seq = lastOp.seq

\* C7: a capture creates a record only if the stream in state.stream is
\* live when it is triggered.
C7_RecordOnlyFromLiveStream ==
    CaptureAppended => lastOp.stream = "live"

NewestFirst(coll) ==
    \A i, j \in 1..Len(coll) : i < j => coll[i].seq > coll[j].seq

StoredList(item) == IF item.kind = "json" THEN item.val ELSE <<>>

\* C10: in state.photos, state.logs and both persisted snapshots, a record
\* appended later stands at a smaller index than one appended earlier.
C10_CollectionsNewestFirst ==
    /\ NewestFirst(photos)
    /\ NewestFirst(logs)
    /\ NewestFirst(StoredList(storedPhotos))
    /\ NewestFirst(StoredList(storedLogs))

C10_Witness ==
    /\ lastOp.op = "load"
    /\ Len(photos) >= 2
    /\ Len(logs) >= 2
    /\ photos[1].seq > photos[2].seq

----------------------------------------------------------------------------
(* Properties of the store under many captures (SpecStore) *)

\* The collection coll is the k most recently created photos, newest first.
IsNewest(coll, k) ==
    /\ Len(coll) = k
    /\ \A i \in 1..k : coll[i].seq = nCaptured - i + 1

\* C3: the persisted photo snapshot never holds more than 50 entries, and
\* while every storage write has been accepted it is exactly the 50 (or, up
\* to 50 captures, all) most recently appended photos, newest first.
C3_PersistedNewestFifty ==
    /\ Len(StoredList(storedPhotos)) <= PersistCap
    /\ (budget.fails = MaxStoreFailures /\ nCaptured > 0) =>
           IsNewest(StoredList(storedPhotos), Min(PersistCap, nCaptured))

C3_Witness ==
    /\ nCaptured > PersistCap
    /\ budget.fails = MaxStoreFailures
    /\ Len(photos) = nCaptured
    /\ IsNewest(StoredList(storedPhotos), PersistCap)

\* C4: a photo write rejected over quota is followed by exactly one more
\* write; when that one is accepted the persisted snapshot is the 20 (or,
\* up to 20 captures, all) most recent photos, newest first, the photo just
\* captured at its head, and state.photos is trimmed to the same photos.
C4_QuotaTrimsToTwentyRetriesOnce ==
    (lastOp.op = "capture" /\ lastOp.outcome # "notReady"
       /\ lastOp.writes[1] = "quota") =>
        /\ lastOp.calls = 2
        /\ Len(photos) = Min(QuotaCap, nCaptured)
        /\ lastOp.writes[2] = "ok" =>
             /\ IsNewest(StoredList(storedPhotos), Min(QuotaCap, nCaptured))
             /\ StoredList(storedPhotos)[1].seq = lastOp.seq
             /\ StoredList(storedPhotos) = StringifyPhotos(photos).val

C4_Witness ==
    /\ lastOp.op = "capture"
    /\ lastOp.outcome = "recorded"
    /\ lastOp.writes = <<"quota", "ok">>
    /\ nCaptured > QuotaCap
    /\ Len(StoredList(storedPhotos)) = QuotaCap
    /\ StoredList(storedPhotos)[1].seq = nCaptured

\* The sequence old is the tail of the sequence new.
IsSuffix(old, new) ==
    /\ Len(old) <= Len(new)
    /\ SubSeq(new, Len(new) - Len(old) + 1, Len(new)) = old

\* The capture with ordinal n ran addLog, in the session of this page.
LoggedHere(n) == created[n].logged /\ created[n].sessionId = sessionId

----------------------------------------------------------------------------
(* Properties of the position tracker (SpecGeo) *)

\* Every fix so far arrived less than 1000 ms after the one before it.
OneBurst ==
    /\ Len(fixLog) >= 1
    /\ \A i \in 2..Len(fixLog) : fixLog[i].at - fixLog[i - 1].at < GeocodeDelay

LastFix == fixLog[Len(fixLog)]

\* C8: for a burst of fixes, each less than 1000 ms after the one before,
\* no reverse-geocode request is issued while the timer of the last fix is
\* pending, and once it has fired exactly one request has been issued, 1000
\* ms after the last fix and for the last fix's coordinates.
C8_OneRequestPerBurst ==
    OneBurst =>
        IF geocodeTimeout.armed
        THEN /\ requests = <<>>
             /\ geocodeTimeout.due = LastFix.at + GeocodeDelay
        ELSE /\ Len(requests) = 1
             /\ requests[1].at = LastFix.at + GeocodeDelay
             /\ requests[1].lat = LastFix.lat
             /\ requests[1].lng = LastFix.lng

C8_Witness ==
    /\ Len(fixLog) = 2
    /\ fixLog[2].at - fixLog[1].at = TickMs
    /\ fixLog[1].lat # fixLog[2].lat
    /\ Len(requests) = 1
    /\ requests[1].at = fixLog[2].at + GeocodeDelay
    /\ requests[1].lat = fixLog[2].lat

\* C9: once every issued lookup has completed (each with a display name),
\* the address shown is the one of the most recently issued lookup.
C9_LatestLookupSurvives ==
    (/\ requests # <<>>
     /\ \A i \in 1..Len(requests) : requests[i].outcome = "named") =>
        address = DisplayName(requests[Len(requests)].lat,
                              requests[Len(requests)].lng)

----------------------------------------------------------------------------
(* Properties of a capture among other events (SpecSnap) *)

\* The overlay capturePhoto draws for a record with settings s and location
\* loc.
ExpectedOverlay(s, loc) ==
    IF s.timestampOnImage \/ s.coordsOnImage
    THEN addMetadataOverlay(s, loc) ELSE NoOverlay

\* C6: no handler runs inside a capturePhoto run, so every photo's overlay
\* and encoding quality are the ones its own settings copy and its own
\* location give, its DMS is that of its own location, and its log is
\* derived from it.
C6_RecordBuiltFromOneSnapshot ==
    \A i \in 1..Len(photos) :
        LET p == photos[i]
        IN  /\ p.imageData.overlay = ExpectedOverlay(p.settings, p.location)
            /\ p.imageData.quality = (IF p.settings.fullResolution THEN 100 ELSE 85)
            /\ p.location.t # "null" =>
                   p.location.dms = decimalToDMS(p.location.latitude,
                                                 p.location.longitude)
            /\ p.projectName = p.settings.projectName

C6_Witness ==
    /\ Len(photos) = 2
    /\ photos[1].settings # photos[2].settings
    /\ photos[1].location # photos[2].location
    /\ photos[1].imageData.overlay # photos[2].imageData.overlay

----------------------------------------------------------------------------
(* Properties of the records over sessions (SpecLife) *)

\* C12: a log with id X is in state.logs if and only if a photo object
\* with id X has been built by a capture of this session or an earlier one.
C12_LogIffPhotoEverCreated ==
    {logs[j].id : j \in 1..Len(logs)} = {created[n].id : n \in 1..Len(created)}

\* C13: after a page load that found the photos item (the logs item)
\* missing, unparseable or holding JSON that is not a list of records,
\* state.photos (state.logs) is an empty array, and a capture with the
\* camera ready appends its photo and its log.
C13_LoadFallsBackToEmptyList ==
    /\ lastOp.op = "load" =>
          /\ storedPhotos.kind # "json" => photos = <<>> /\ ~nonArray.photos
          /\ storedLogs.kind # "json" => logs = <<>> /\ ~nonArray.logs
    /\ (lastOp.op = "capture" /\ lastOp.outcome # "notReady"
          /\ lastOp.writes = <<"ok">>) =>
          /\ lastOp.outcome = "recorded"
          /\ photos[1].seq = lastOp.seq
          /\ logs[1].seq = lastOp.seq

\* C15: the photos in state.photos have pairwise distinct ids.
C15_PhotoIdsUnique ==
    \A i, j \in 1..Len(photos) : i # j => photos[i].id # photos[j].id

----------------------------------------------------------------------------
(* Properties of stored records among later events (SpecFrame) *)

\* Every record of the collection before that is still in the collection
\* after is the same record, field by field.
RecordsKept(before, after) ==
    \A i \in 1..Len(before), j \in 1..Len(after) :
        after[j].seq = before[i].seq => after[j] = before[i]

\* C14: no handler run changes a field of a photo that stays in state.photos
\* or in the persisted photos.
C14_StoredPhotoNeverChanges ==
    [][/\ RecordsKept(photos, photos')
       /\ RecordsKept(StoredList(storedPhotos), StoredList(storedPhotos'))]_vars

C14_Witness ==
    /\ Len(photos) = 2
    /\ photos[2].settings # settings
    /\ photos[2].location.t = "null"
    /\ position.t # "null"
    /\ photos[2].address # address
    /\ lastOp.op \in {"deviceSave", "clearLogs"}
    /\ StoredList(storedPhotos) = StringifyPhotos(photos).val

\* C20: a photo captured while the address read-out is what a failed
\* lookup left stores no address: never the placeholder text.
C20_FailedLookupLeavesAddressAbsent ==
    CaptureAppended => photos[1].address # AddressUnavailable

----------------------------------------------------------------------------
(* Properties of the device save (SpecSave) *)

\* C16: whatever way a device save settles (completed, cancelled, failed)
\* the step leaves state.photos, state.logs and both persisted lists as
\* they are and throws nothing; and the capture that starts a device save
\* has stored its photo and its log before.
C16_DeviceSaveNeverRollsBack ==
    /\ [][lastOp'.op = "deviceSave" =>
            /\ UNCHANGED <<photos, logs, storedPhotos, storedLogs>>
            /\ ~lastOp'.escaped]_vars
    /\ []((lastOp.op = "capture" /\ lastOp.outcome = "recorded" /\ lastOp.started) =>
             /\ photos[1].seq = lastOp.seq
             /\ logs[1].seq = lastOp.seq)

C16_Witness ==
    /\ lastOp.op = "deviceSave"
    /\ lastOp.outcome = "error"
    /\ \E i \in 1..Len(photos) : photos[i].seq = lastOp.seq
    /\ \E i \in 1..Len(logs) : logs[i].seq = lastOp.seq
    /\ \E i \in 1..Len(StoredList(storedPhotos)) :
           StoredList(storedPhotos)[i].seq = lastOp.seq
    /\ \E i \in 1..Len(StoredList(storedLogs)) :
           StoredList(storedLogs)[i].seq = lastOp.seq

----------------------------------------------------------------------------
(* Properties of captures among fixes and location errors (SpecLoc) *)

C19_GeoErrorKeepsLastFix ==
    /\ [][lastOp'.op = "geoError" => UNCHANGED <<position, locationInfo>>]_vars
    /\ []((CaptureAppended /\ fixLog # <<>>) =>
             /\ photos[1].location.t = "object"
             /\ photos[1].location.latitude = LastFix.lat
             /\ photos[1].location.longitude = LastFix.lng
             /\ photos[1].location.dms = decimalToDMS(LastFix.lat, LastFix.lng)
             /\ photos[1].locationDecipher.locationType = locationType(LastFix.lat))

C19_Witness ==
    /\ lastOp.op = "capture"
    /\ lastOp.outcome = "recorded"
    /\ lastOp.after = "geoError"
    /\ Len(fixLog) = 2
    /\ photos[1].location.latitude = LastFix.lat
    /\ logs[1].latitude = JNum(LastFix.lat)

----------------------------------------------------------------------------
(* Properties of the settings (SpecFrame) *)

\* No handler run other than saveSettings changes state.settings.
SettingsChangedOnlyBySave ==
    [][lastOp'.op # "saveSettings" => UNCHANGED settings]_vars

\* C21: state.settings is changed by saveSettings only (the steps of
\* capture, fixes, lookups, device saves and clearLogs leave it as it is:
\* SettingsChangedOnlyBySave), and after every saveSettings run the
\* persisted settings item is the JSON text of the whole of state.settings.
C21_SettingsPersistedOnEverySave ==
    lastOp.op = "saveSettings" => storedSettings = StringifySettings(settings)

----------------------------------------------------------------------------
(* Properties of the log export (SpecCsv) *)

\* Reading a text as CSV: a double quote opens or closes a quoted stretch (a
\* doubled quote inside a quoted field closes and reopens it), and a comma
\* or a line feed outside a quoted stretch ends a field or a row.
Quoted(text) ==
    [i \in 1..Len(text) |->
        Cardinality({j \in 1..(i - 1) : text[j] = Quote}) % 2 = 1]
RowEnds(text) ==
    LET q == Quoted(text) IN {i \in 1..Len(text) : text[i] = LineFeed /\ ~q[i]}
FieldEnds(text) ==
    LET q == Quoted(text) IN {i \in 1..Len(text) : text[i] = Comma /\ ~q[i]}
CsvRowCount(text) == 1 + Cardinality(RowEnds(text))
RowOf(text, i) == 1 + Cardinality({j \in RowEnds(text) : j < i})
CsvColumns(text, r) ==
    1 + Cardinality({i \in FieldEnds(text) : RowOf(text, i) = r})
RowStart(text, r) ==
    IF r = 1 THEN 1
    ELSE 1 + CHOOSE j \in RowEnds(text) : RowOf(text, j) = r - 1
RowStop(text, r) ==
    LET ends == {j \in RowEnds(text) : RowOf(text, j) = r}
    IN  IF ends = {} THEN Len(text) + 1 ELSE CHOOSE j \in ends : TRUE
CsvRowText(text, r) == SubSeq(text, RowStart(text, r), RowStop(text, r) - 1)
CsvFirstField(text, r) ==
    LET from == RowStart(text, r)
        stops == {i \in FieldEnds(text) : RowOf(text, i) = r} \cup {RowStop(text, r)}
        to == CHOOSE i \in stops : \A k \in stops : i <= k
    IN  SubSeq(text, from, to - 1)

Exported == lastOp.op = "exportLogs" /\ lastOp.outcome = "exported"

\* C22: exportLogs on an empty state.logs shows the error notice and builds
\* no file; on a non-empty one the file read as CSV has one header row and
\* one row per log, row i + 1 being the row of state.logs[i].
C22_ExportOneRowPerLog ==
    lastOp.op = "exportLogs" =>
        IF logs = <<>>
        THEN /\ lastOp.outcome = "refused"
             /\ toasts = <<Toast("No logs to export", "error")>>
        ELSE /\ lastOp.outcome = "exported"
             /\ CsvRowCount(lastOp.csv) = 1 + Len(logs)
             /\ CsvRowText(lastOp.csv, 1) = Join(CsvHeaders, Comma)
             /\ \A i \in 1..Len(logs) :
                    CsvFirstField(lastOp.csv, i + 1) = IdText(logs[i].id)

\* C23: every row of the exported file has the 12 columns, the header row
\* naming them in order, whatever commas and double quotes the local
\* timestamp, the address and the project and operator names contain.
C23_ExportRowsHaveTwelveColumns ==
    Exported =>
        /\ CsvRowText(lastOp.csv, 1) = Join(CsvHeaders, Comma)
        /\ \A r \in 1..CsvRowCount(lastOp.csv) : CsvColumns(lastOp.csv, r) = 12

----------------------------------------------------------------------------
(* Properties of the composed image (SpecSnap) *)

\* The value a printed coordinate reads as, in micro-degrees.
PrintedValue(txt) ==
    (IF txt.negative THEN -1 ELSE 1) * (txt.whole * Micro + txt.decimals)

\* C24: a photo captured with coordsOnImage and timestampOnImage both off
\* is the frame as drawn from the video: no band, no text line and no
\* watermark over it, whatever the other settings and with or without a fix.
C24_NoOverlayWithoutFlags ==
    \A i \in 1..Len(photos) :
        LET p == photos[i]
        IN  (~p.settings.coordsOnImage /\ ~p.settings.timestampOnImage) =>
                /\ p.imageData.frame = "live"
                /\ ~p.imageData.overlay.band
                /\ p.imageData.overlay.lines = <<>>
                /\ ~p.imageData.overlay.watermark

C24_Witness ==
    /\ CaptureAppended
    /\ ~photos[1].settings.coordsOnImage
    /\ ~photos[1].settings.timestampOnImage
    /\ photos[1].settings.watermarkEnabled
    /\ photos[1].location.t # "null"
    /\ photos[1].imageData.overlay.lines = <<>>

\* C25: every photo captured with watermarkEnabled on carries the watermark
\* banner, whatever timestampOnImage and coordsOnImage are.
C25_WatermarkWheneverEnabled ==
    \A i \in 1..Len(photos) :
        photos[i].settings.watermarkEnabled => photos[i].imageData.overlay.watermark

\* C26: the text lines drawn on a photo are 2 if timestampOnImage is on plus
\* 1 if coordsOnImage is on and there was a fix.  With coordinates only and
\* a fix the one line is the coordinates line, showing the fix to 6
\* decimals, and no timestamp line; with coordsOnImage on and no fix no
\* coordinates line is drawn, and the capture is recorded all the same.
C26_OverlayLineCount ==
    /\ \A i \in 1..Len(photos) :
           LET p == photos[i]
               s == p.settings
               fix == p.location.t # "null"
               drawn == p.imageData.overlay.lines
           IN  /\ Len(drawn) = (IF s.timestampOnImage THEN 2 ELSE 0)
                                + (IF s.coordsOnImage /\ fix THEN 1 ELSE 0)
               /\ (s.coordsOnImage /\ ~s.timestampOnImage /\ fix) =>
                      /\ Len(drawn) = 1
                      /\ drawn[1].t = "coords"
                      /\ drawn[1].latitude.decimals \in 0..(Micro - 1)
                      /\ drawn[1].longitude.decimals \in 0..(Micro - 1)
                      /\ PrintedValue(drawn[1].latitude) = p.location.latitude
                      /\ PrintedValue(drawn[1].longitude) = p.location.longitude
               /\ (s.coordsOnImage /\ ~fix) =>
                      \A k \in 1..Len(drawn) : drawn[k].t # "coords"
    /\ (lastOp.op = "capture" /\ stream = "live" /\ settings.coordsOnImage
          /\ position.t = "null") =>
           /\ lastOp.outcome = "recorded"
           /\ photos[1].seq = lastOp.seq

C26_Witness ==
    /\ Len(photos) = 2
    /\ photos[1].settings.coordsOnImage
    /\ ~photos[1].settings.timestampOnImage
    /\ photos[1].location.t # "null"
    /\ photos[1].location.longitude < 0
    /\ Len(photos[1].imageData.overlay.lines) = 1
    /\ photos[2].settings.coordsOnImage
    /\ photos[2].location.t = "null"

----------------------------------------------------------------------------
(* Properties of the location descriptor (SpecPlace) *)

\* How far the angle a DMS value reads as lies from a decimal value given
\* in micro-degrees, in ten-thousandths of an arcsecond (one micro-degree
\* is 36 of them, one minute 600000, one hundredth of a second 100).
DmsOffset(d, decimal) ==
    (d.degrees * Micro - Abs(decimal)) * 36 + d.minutes * 600000 + d.seconds * 100

WellFormedDms(d, maxDegrees, directions) ==
    /\ d.degrees \in 0..maxDegrees
    /\ d.minutes \in 0..59
    /\ d.seconds \in 0..6000
    /\ d.direction \in directions

ReadsBackAs(d, decimal) ==
    /\ Abs(d.degrees * Micro - Abs(decimal)) <= Micro
    /\ Abs(DmsOffset(d, decimal)) <= 100

\* C27: for every fix in range the descriptor holds a DMS value for the
\* latitude and one for the longitude (whole degrees, minutes 0..59, seconds
\* in hundredths, direction by sign), and each reads back as the decimal
\* value it was made from to within 0.01 arcsecond.
C27_DmsRoundTrip ==
    position.t # "null" =>
        LET d == locationInfo.dms
        IN  /\ WellFormedDms(d.latitude, 90, {"N", "S"})
            /\ WellFormedDms(d.longitude, 180, {"E", "W"})
            /\ d.latitude.direction = (IF position.latitude >= 0 THEN "N" ELSE "S")
            /\ d.longitude.direction = (IF position.longitude >= 0 THEN "E" ELSE "W")
            /\ ReadsBackAs(d.latitude, position.latitude)
            /\ ReadsBackAs(d.longitude, position.longitude)

C27_Witness ==
    /\ lastOp.op = "updatePosition"
    /\ position.latitude = -45999999
    /\ locationInfo.dms.latitude.seconds = 6000
    /\ position.longitude = 180000000
    /\ locationInfo.dms.longitude.degrees = 180

\* The band of a climate zone, and the band the thresholds give a latitude.
BandOf(zone) ==
    CASE zone \in {"Arctic region", "Antarctic region"} -> "polar"
      [] zone \in {"Northern temperate zone", "Southern temperate zone"} -> "temperate"
      [] zone = "Tropical zone" -> "tropical"
      [] OTHER -> "unknown"

BandByAbsoluteLatitude(lat) ==
    IF 10 * Abs(lat) >= 665 * Micro THEN "polar"
    ELSE IF 10 * Abs(lat) >= 235 * Micro THEN "temperate"
    ELSE "tropical"

\* C28: the climate zone of every fix is the band of its absolute latitude
\* (polar from 66.5, temperate from 23.5 up to 66.5, tropical below 23.5),
\* the same for lat and -lat, and never 'Unknown area'.
C28_ZoneByAbsoluteLatitude ==
    position.t # "null" =>
        /\ locationInfo.locationType # "Unknown area"
        /\ BandOf(locationInfo.locationType) = BandByAbsoluteLatitude(position.latitude)

----------------------------------------------------------------------------
(* Properties of the device save (SpecSave) *)

\* saveToDevice has been called for the capture with ordinal n: its save is
\* pending at an await, or its photo has been handed to a channel.
SaveStartedFor(n) ==
    \/ \E d \in devSaves : d.seq = n
    \/ \E k \in 1..Len(handed) : handed[k].seq = n

HoldsSeq(list, n) == \E k \in 1..Len(list) : list[k].seq = n

\* C29: when a capturePhoto run has started the device save, its photo is
\* in state.photos and in the persisted photos and its log is in
\* state.logs; and a run that has appended its photo has started the device
\* save if and only if autoSave is on.
C29_DeviceSaveAfterRecorded ==
    (lastOp.op = "capture" /\ lastOp.outcome # "notReady") =>
        /\ SaveStartedFor(lastOp.seq) =>
               /\ HoldsSeq(photos, lastOp.seq)
               /\ HoldsSeq(StoredList(storedPhotos), lastOp.seq)
               /\ HoldsSeq(logs, lastOp.seq)
        /\ CaptureAppended => (SaveStartedFor(lastOp.seq) <=> settings.autoSave)

\* C30: the channel a photo is handed to is the first the browser offers
\* of picker, sharing and download: the picker whenever it is present,
\* sharing only where there is no picker, download only where there is no
\* picker and sharing is absent or cannot share the file.  No capture's
\* photo is handed to two channels, and a save that failed or was cancelled
\* leaves its photo with no download and nothing pending.
C30_OneChannelByPriority ==
    /\ \A j, k \in 1..Len(handed) : handed[j].seq = handed[k].seq => j = k
    /\ \A k \in 1..Len(handed) :
           /\ handed[k].channel = "picker" <=> platform = "picker"
           /\ handed[k].channel = "share" <=> platform = "share"
           /\ handed[k].channel = "download" <=> platform \in {"shareNoFiles", "download"}
    /\ \A d \in devSaves : \A k \in 1..Len(handed) :
           handed[k].seq = d.seq => handed[k].channel = "picker"
    /\ (lastOp.op = "deviceSave" /\ lastOp.outcome \in {"abort", "error"}) =>
           /\ \A k \in 1..Len(handed) :
                  handed[k].seq = lastOp.seq => handed[k].channel # "download"
           /\ \A d \in devSaves : d.seq # lastOp.seq

C30_Witness ==
    /\ lastOp.op = "deviceSave"
    /\ lastOp.outcome = "error"
    /\ platform = "share"
    /\ Len(handed) = 1
    /\ handed[1].channel = "share"
    /\ handed[1].seq # lastOp.seq
    /\ devSaves = {}

----------------------------------------------------------------------------
(* Properties of the position tracker over sessions (SpecTrack) *)

\* A descriptor part made for the coordinates lat, lng: its DMS values read
\* back as them, and its hemispheres are those of their signs.
DmsMadeFor(dms, lat, lng) ==
    /\ dms # JNull
    /\ ReadsBackAs(dms.latitude, lat)
    /\ ReadsBackAs(dms.longitude, lng)
    /\ dms.latitude.direction = (IF lat >= 0 THEN "N" ELSE "S")
    /\ dms.longitude.direction = (IF lng >= 0 THEN "E" ELSE "W")

\* C31: state.locationInfo is set if and only if state.position is, and
\* then its decimal coordinates are those of state.position; and every
\* photo with a location carries the DMS, the hemispheres and the map link
\* of exactly that location, a photo without one carries no descriptor.
C31_DescriptorFollowsFix ==
    /\ locationInfo.t # "null" <=> position.t # "null"
    /\ position.t # "null" =>
           /\ locationInfo.decimal = [lat |-> position.latitude,
                                      lng |-> position.longitude]
           /\ DmsMadeFor(locationInfo.dms, position.latitude, position.longitude)
    /\ \A i \in 1..Len(photos) :
           LET p == photos[i]
           IN  IF p.location.t = "null"
               THEN p.locationDecipher.t = "null"
               ELSE /\ DmsMadeFor(p.location.dms, p.location.latitude,
                                  p.location.longitude)
                    /\ p.locationDecipher.t # "null"
                    /\ p.locationDecipher.mapUrl
                           = <<"maps", p.location.latitude, p.location.longitude>>
                    /\ p.locationDecipher.hemisphere.lat
                           = (IF p.location.latitude >= 0 THEN "North" ELSE "South")
                    /\ p.locationDecipher.hemisphere.lng
                           = (IF p.location.longitude >= 0 THEN "East" ELSE "West")

C31_Witness ==
    /\ lastOp.op = "capture"
    /\ Len(fixLog) = 2
    /\ fixLog[1].lat # fixLog[2].lat
    /\ Len(photos) = 2
    /\ photos[1].location.latitude = fixLog[2].lat
    /\ photos[2].location.latitude = fixLog[1].lat
    /\ photos[1].locationDecipher.mapUrl # photos[2].locationDecipher.mapUrl

----------------------------------------------------------------------------
(* Properties of persistence over sessions (SpecSession) *)

\* A capture has run to its end with every setItem call accepted.
CaptureWritten ==
    /\ lastOp.op = "capture"
    /\ lastOp.outcome = "recorded"
    /\ lastOp.writes = <<"ok">>
    /\ lastOp.logWrite = "ok"

LoadedWhatIsStored ==
    lastOp.op = "load" =>
        /\ storedPhotos.kind = "json" => photos = storedPhotos.val
        /\ storedLogs.kind = "json" => logs = storedLogs.val

\* C32 as stated: after a capture whose writes are accepted the persisted
\* photos equal the first 50 entries of state.photos and the persisted logs
\* equal state.logs, and a page load yields collections equal to the
\* persisted ones.
C32_PersistedEqualsMemory ==
    /\ CaptureWritten =>
           /\ StoredList(storedPhotos) = Slice(photos, PersistCap)
           /\ StoredList(storedLogs) = logs
    /\ LoadedWhatIsStored

\* C32: after a capture whose writes are accepted the persisted photos are
\* the JSON text of the first 50 entries of state.photos, in which a NaN
\* (the heading of a stationary fix) is written as null, and the persisted
\* logs are the JSON text of the whole of state.logs; a page load yields
\* collections equal to the persisted ones.
C32_PersistedIsJsonOfMemory ==
    /\ CaptureWritten =>
           /\ storedPhotos.kind = "json"
           /\ storedLogs.kind = "json"
           /\ Len(storedPhotos.val) = Min(PersistCap, Len(photos))
           /\ \A i \in 1..Len(storedPhotos.val) :
                  storedPhotos.val[i] = JsonPhoto(photos[i])
           /\ Len(storedLogs.val) = Len(logs)
           /\ \A i \in 1..Len(logs) : storedLogs.val[i] = JsonLog(logs[i])
    /\ LoadedWhatIsStored

C32_Witness ==
    /\ lastOp.op = "load"
    /\ nCaptured > PersistCap
    /\ Len(photos) = PersistCap
    /\ Len(logs) = nCaptured
    /\ photos[1].seq = nCaptured
    /\ photos[1].location.t = "object"
    /\ photos[1].location.heading = JNull

\* C33: a capturePhoto run whose photos write is rejected with an error
\* other than quota makes that one setItem call only, leaves state.photos
\* with the new photo in front of every photo it held, leaves the photos
\* item as it was, and goes on to append the log of the new photo.
C33_OtherWriteErrorIsSwallowed ==
    [][(lastOp'.op = "capture" /\ lastOp'.outcome # "notReady"
          /\ lastOp'.writes = <<"error">>) =>
           /\ lastOp'.calls = 1
           /\ Len(photos') = Len(photos) + 1
           /\ Tail(photos') = photos
           /\ photos'[1].seq = lastOp'.seq
           /\ storedPhotos' = storedPhotos
           /\ lastOp'.outcome = "recorded"
           /\ Len(logs') = Len(logs) + 1
           /\ Tail(logs') = logs
           /\ logs'[1].seq = lastOp'.seq
           /\ logs'[1].id = photos'[1].id]_vars

C33_Witness ==
    /\ lastOp.op = "capture"
    /\ lastOp.outcome = "recorded"
    /\ lastOp.writes = <<"error">>
    /\ Len(photos) > PersistCap
    /\ photos[1].seq = lastOp.seq
    /\ logs[1].seq = lastOp.seq
    /\ StoredList(storedPhotos)[1].seq = lastOp.seq - 1
    /\ Len(StoredList(storedPhotos)) = PersistCap

----------------------------------------------------------------------------
(* Properties of the address of a photo (SpecAddr) *)

\* C34: the address a photo stores is the one looked up for the fix the
\* photo stores, or none: a photo never holds the display name of other
\* coordinates than its own.
C34_AddressIsOfOwnFix ==
    \A i \in 1..Len(photos) :
        LET p == photos[i]
        IN  p.address.kind = "display_name" =>
                /\ p.location.t # "null"
                /\ p.address.lat = p.location.latitude
                /\ p.address.lng = p.location.longitude

----------------------------------------------------------------------------
(* Properties of Save All (SpecBatch) *)

IsPrefix(short, long) ==
    /\ Len(short) <= Len(long)
    /\ SubSeq(long, 1, Len(short)) = short

\* C35: what a run of saveAllPhotos has downloaded so far is the beginning
\* of what state.photos held when it began, in that order, and when it
\* finishes it is all of it; a run on an empty state.photos downloads
\* nothing and shows an error notice.
C35_SaveAllDownloadsEachOnce ==
    /\ IsPrefix(saveAll.done, saveAll.begun)
    /\ lastOp.op = "saveAll" =>
           /\ lastOp.outcome = "finished" => saveAll.done = saveAll.begun
           /\ lastOp.outcome = "refused" =>
                  /\ saveAll.done = <<>>
                  /\ toasts = <<Toast("No photos to save", "error")>>

----------------------------------------------------------------------------
(* Properties of the coordinates of a log (SpecCsv) *)

\* Field c of row r of a text read as CSV, as written (quotes included).
CsvField(text, r, c) ==
    LET seps == {i \in FieldEnds(text) : RowOf(text, i) = r}
        nth(k) == CHOOSE i \in seps : Cardinality({j \in seps : j < i}) = k - 1
        from == IF c = 1 THEN RowStart(text, r) ELSE nth(c - 1) + 1
        to == IF c > Cardinality(seps) THEN RowStop(text, r) ELSE nth(c)
    IN  SubSeq(text, from, to - 1)

\* C36: a log whose photo was captured with a fix has its Latitude and
\* Longitude columns filled in the exported file, and showLogs lists it
\* with its coordinates, the fix being on the equator or the prime
\* meridian or not.
C36_FixedLogShowsCoordinates ==
    /\ (Exported /\ CsvRowCount(lastOp.csv) = 1 + Len(logs)) =>
           \A i \in 1..Len(logs) :
               (logs[i].latitude.t = "number" /\ CsvColumns(lastOp.csv, i + 1) = 12) =>
                   /\ CsvField(lastOp.csv, i + 1, 5) # <<>>
                   /\ CsvField(lastOp.csv, i + 1, 6) # <<>>
    /\ (lastOp.op = "showLogs" /\ lastOp.outcome = "shown") =>
           \A i \in 1..Len(logs) :
               logs[i].latitude.t = "number" => lastOp.lines[i].kind = "coords"

----------------------------------------------------------------------------
(* Properties of the DMS components (SpecPlace) *)

\* The components of one DMS value are in range: whole degrees from 0,
\* minutes 0..59, seconds printed with 2 decimals from 0.00 to 59.99.
DmsInRange(d) ==
    /\ d.degrees \in Nat
    /\ d.minutes \in 0..59
    /\ d.seconds >= 0
    /\ d.seconds < 60 * 100

\* C37: for every valid coordinate the DMS components decimalToDMS gives
\* are in range: degrees a non-negative integer, minutes in 0..59, and the
\* seconds rounded to 2 decimals at least 0 and strictly below 60.
C37_DmsComponentsInRange ==
    position.t # "null" =>
        /\ DmsInRange(decimalToDMS(position.latitude, position.longitude).latitude)
        /\ DmsInRange(decimalToDMS(position.latitude, position.longitude).longitude)

----------------------------------------------------------------------------
(* Properties of clearLogs (SpecFrame) *)

\* The step is a run of clearLogs (the passing of time keeps lastOp).
ClearLogsRan == lastOp'.op = "clearLogs" /\ now' = now

\* C38: a confirmed clearLogs leaves state.logs and the persisted logs
\* empty and the photos (in memory and persisted), the settings and the
\* latest fix as they were; a declined one changes nothing of the state.
C38_ClearLogsEmptiesLogsOnly ==
    [][ClearLogsRan =>
           IF lastOp'.confirmed
           THEN /\ logs' = <<>>
                /\ StoredList(storedLogs') = <<>>
                /\ UNCHANGED <<photos, storedPhotos, settings, storedSettings,
                               position, locationInfo>>
           ELSE UNCHANGED <<camVars, geoVars, now, settings, memVars, sessionId,
                            diskVars, platform, saveAll, devSaves>>]_vars

====
